---- MODULE Spec2Model ----
(***************************************************************************)
(* A model of gshotsheet2py.Shotsheet: the time-windowed cache of the two  *)
(* worksheets (update), the key/run lookup with its backward walk (get),   *)
(* the unit lookup (get_unit) and the cell-wise write protocol (write),    *)
(* over a remote document whose worksheets are grids of text cells.        *)
(***************************************************************************)
EXTENDS Integers, Sequences, FiniteSets, TLC

(***************************************************************************)
(* Bounds of the model.                                                    *)
(***************************************************************************)
\* number of rows and columns of a worksheet grid
MaxRow == 6
MaxCol == 4
\* number of public calls in one behaviour
MaxOps == 2
\* the largest run number passed to write
MaxRun == 1

(***************************************************************************)
(* Program constants.                                                      *)
(***************************************************************************)
\* cache_time (constructor argument, scaled down from its default of 10)
CacheTime == 1
\* head: the header row of the source sheet
SrcHead == 2
\* head=1 of the write sheet
WriteHead == 1
\* while retry_count < 5
MaxRetries == 5
\* time.sleep(2)
RetrySleep == 2
\* while runNr > -10
WalkFloor == -10

(***************************************************************************)
(* Python values and cell text.  A cell holds text (a string, "" when      *)
(* empty).  A Python value is an int or a str.                             *)
(***************************************************************************)
PyInt(n) == [t |-> "int", i |-> n, s |-> ""]
PyStr(x) == [t |-> "str", i |-> 0, s |-> x]
\* the empty string ''
Empty == PyStr("")
\* the value None (a function that falls off its end)
PyNone == [t |-> "none", i |-> 0, s |-> ""]

Digits == <<"0", "1", "2", "3", "4", "5", "6", "7", "8", "9">>

RECURSIVE NatStr(_)
NatStr(n) == IF n < 10 THEN Digits[n + 1]
             ELSE NatStr(n \div 10) \o Digits[(n % 10) + 1]

\* str(n) of an int
IntStr(n) == IF n < 0 THEN "-" \o NatStr(0 - n) ELSE NatStr(n)

\* str(v) of a Python value
Str(v) == IF v.t = "int" THEN IntStr(v.i) ELSE IF v.t = "none" THEN "None" ELSE v.s

\* the integers whose numerals occur in the model
NumRange == -20 .. 20

\* gspread's numericise: the text of an int is read back as that int, any
\* other text as a str.  The texts that are numerals, with their ints:
Numerals == {<<IntStr(n), n>> : n \in NumRange}

NumeralTexts == {p[1] : p \in Numerals}

\* the int a numeral stands for
NumeralValue(text) == (CHOOSE p \in Numerals : p[1] = text)[2]

Numericise(text) ==
    IF text \in NumeralTexts
    THEN PyInt(NumeralValue(text))
    ELSE PyStr(text)

\* "comment" in key, over the keys of the model: the ones that contain
\* the substring "comment"
HasComment(key) == key \in {"comment", "op_comment"}

(***************************************************************************)
(* Worksheets.  A worksheet is a grid of MaxRow x MaxCol text cells; a     *)
(* cell outside the grid does not exist and the API refuses it.            *)
(***************************************************************************)
Rows == 1 .. MaxRow
Cols == 1 .. MaxCol

InGrid(r, c) == r \in Rows /\ c \in Cols

\* the last row and the last column that hold any text (0: none)
LastRow(sheet) ==
    LET used == {r \in Rows : \E c \in Cols : sheet[r][c] # ""}
    IN  IF used = {} THEN 0 ELSE CHOOSE r \in used : \A q \in used : q <= r

LastCol(sheet) ==
    LET used == {c \in Cols : \E r \in Rows : sheet[r][c] # ""}
    IN  IF used = {} THEN 0 ELSE CHOOSE c \in used : \A q \in used : q <= c

\* Worksheet.update_cell(r, c, text) on a cell of the grid
UpdateCell(sheet, r, c, text) == [sheet EXCEPT ![r][c] = text]

\* Worksheet.get_all_records(head): row `head` gives the keys, every later
\* row up to the last used one is a record, its values numericised.
\* No row after the header: no records at all.
GetAllRecords(sheet, head) ==
    LET last == LastRow(sheet)
        w    == LastCol(sheet)
    IN  IF last <= head
        THEN [keys |-> <<>>, recs |-> <<>>]
        ELSE [keys |-> [c \in 1 .. w |-> sheet[head][c]],
              recs |-> [k \in 1 .. (last - head) |->
                          [c \in 1 .. w |-> Numericise(sheet[head + k][c])]]]

(***************************************************************************)
(* DataFrames: the columns in order, and the rows.                         *)
(***************************************************************************)
\* pd.DataFrame.from_dict(records): no records, no columns
DataFrame(keys, recs) ==
    IF Len(recs) = 0 THEN [cols |-> <<>>, rows |-> <<>>]
    ELSE [cols |-> keys, rows |-> recs]

\* an attribute that was never assigned
Unset == [cols |-> <<"<unset>">>, rows |-> <<>>]

HasCol(df, key) == \E c \in 1 .. Len(df.cols) : df.cols[c] = key

\* df.columns.get_loc(key), 0-based; only used where HasCol holds
GetLoc(df, key) ==
    (CHOOSE c \in 1 .. Len(df.cols) :
        df.cols[c] = key /\ \A q \in 1 .. (c - 1) : df.cols[q] # key) - 1

\* the records whose run_number is not ''
RECURSIVE CleanRecs(_, _)
CleanRecs(recs, rc) ==
    IF Len(recs) = 0 THEN <<>>
    ELSE IF Head(recs)[rc] # Empty
         THEN <<Head(recs)>> \o CleanRecs(Tail(recs), rc)
         ELSE CleanRecs(Tail(recs), rc)

KeyIndex(keys, key) ==
    IF \E c \in 1 .. Len(keys) : keys[c] = key
    THEN CHOOSE c \in 1 .. Len(keys) : keys[c] = key
    ELSE 0

(***************************************************************************)
(* State.                                                                  *)
(***************************************************************************)
VARIABLES
    srcSheet,            \* the remote source worksheet
    wrSheet,             \* the remote write worksheet
    records_raw,         \* self._records_raw
    records_python_raw,  \* self._records_python_raw
    records,             \* self.records
    records_python,      \* self.records_python
    lastUpdate,          \* self._lastUpdate
    now,                 \* time.time()
    call,                \* the last public call: its arguments and outcome
    nops                 \* number of public calls made

vars == <<srcSheet, wrSheet, records_raw, records_python_raw, records,
          records_python, lastUpdate, now, call, nops>>

(***************************************************************************)
(* Shotsheet.update                                                        *)
(***************************************************************************)
\* What the transport does during one call: f1, whether the fetch on the
\* current handles succeeds; k, how many attempts of _get_sheet_instance
\* fail before one succeeds (MaxRetries: none succeeds); f2, whether the
\* fetch on the re-acquired handles succeeds.
TransportOk == [f1 |-> TRUE, k |-> 0, f2 |-> TRUE]

TransportDown == [f1 |-> FALSE, k |-> MaxRetries, f2 |-> FALSE]

Transports ==
    {TransportOk, TransportDown}
    \cup {[f1 |-> FALSE, k |-> 0, f2 |-> f2] : f2 \in BOOLEAN}

\* (mutant of Stale: the window closes one tick early)
StaleAtEdge(t) == t - lastUpdate >= CacheTime

\* time.time() - self._lastUpdate > self._cache_time
Stale(t) == t - lastUpdate > CacheTime

\* the while loop of _get_sheet_instance from retry_count on, when the
\* next `fails` attempts fail: whether a handle is returned (FALSE: the
\* loop ends and None is returned), the time slept and the attempts made
RECURSIVE Connect(_, _, _)
Connect(fails, retry_count, limit) ==
    IF retry_count >= limit
    THEN [handle |-> FALSE, slept |-> 0, attempts |-> 0]
    ELSE IF fails = 0
    THEN [handle |-> TRUE, slept |-> 0, attempts |-> 1]
    ELSE LET rest == Connect(fails - 1, retry_count + 1, limit)
         IN  [handle |-> rest.handle, slept |-> RetrySleep + rest.slept,
              attempts |-> 1 + rest.attempts]

\* (mutant of GetSheetInstance: the loop runs while retry_count <= 5)
GetSheetInstanceOneMore(tr) == Connect(tr.k, 0, MaxRetries + 1)

\* _get_sheet_instance under transport tr
GetSheetInstance(tr) == Connect(tr.k, 0, MaxRetries)

\* lines 107-122: the four record sets and the timestamp from the fetched
\* records; rec["run_number"] raises KeyError when a sheet with records has
\* no such column, after the two raw frames were assigned
Partition(rs, rw, t) ==
    LET raw  == DataFrame(rs.keys, rs.recs)
        praw == DataFrame(rw.keys, rw.recs)
        okS  == Len(rs.recs) = 0 \/ KeyIndex(rs.keys, "run_number") # 0
        okW  == Len(rw.recs) = 0 \/ KeyIndex(rw.keys, "run_number") # 0
    IN  IF okS /\ okW
        THEN [raw |-> raw, praw |-> praw,
              clean  |-> DataFrame(rs.keys,
                            CleanRecs(rs.recs, KeyIndex(rs.keys, "run_number"))),
              pclean |-> DataFrame(rw.keys,
                            CleanRecs(rw.recs, KeyIndex(rw.keys, "run_number"))),
              last |-> t, raised |-> "none"]
        ELSE [raw |-> raw, praw |-> praw, clean |-> records,
              pclean |-> records_python, last |-> lastUpdate,
              raised |-> "KeyError"]

\* (mutant of Kept: the frames of a new fetch are used inside the window)
KeptRefetched(t, raised, fetches, stale) ==
    LET p == Partition(GetAllRecords(srcSheet, SrcHead),
                       GetAllRecords(wrSheet, WriteHead), lastUpdate)
    IN  [raw |-> p.raw, praw |-> p.praw, clean |-> p.clean,
         pclean |-> p.pclean, last |-> lastUpdate, raised |-> raised,
         now |-> t, fetches |-> fetches, stale |-> stale]

\* the cache is left as it is
Kept(t, raised, fetches, stale) ==
    [raw |-> records_raw, praw |-> records_python_raw, clean |-> records,
     pclean |-> records_python, last |-> lastUpdate, raised |-> raised,
     now |-> t, fetches |-> fetches, stale |-> stale]

\* update() called at time t under transport tr: the new cache, the time
\* at which it returns, the exception it raises ("none": returns), and the
\* number of fetches of the two sheets it attempted
UpdateOutcome(t, tr) ==
    IF ~Stale(t) THEN Kept(t, "none", 0, FALSE)
    ELSE
      LET rs == GetAllRecords(srcSheet, SrcHead)
          rw == GetAllRecords(wrSheet, WriteHead)
          g  == GetSheetInstance(tr)
          t2 == t + g.slept
      IN  IF tr.f1
          THEN Partition(rs, rw, t) @@ [now |-> t, fetches |-> 1, stale |-> TRUE]
          ELSE IF ~g.handle
          THEN Kept(t2, "AttributeError", 1, TRUE)
          ELSE IF ~tr.f2
          THEN Kept(t2, "APIError", 2, TRUE)
          ELSE Partition(rs, rw, t2) @@ [now |-> t2, fetches |-> 2, stale |-> TRUE]

(***************************************************************************)
(* Shotsheet.get                                                           *)
(***************************************************************************)
\* no run: the value returned was not read from any row
NoRun == WalkFloor - 1

RunColumn(df) ==
    LET rc == KeyIndex(df.cols, "run_number")
    IN  [k \in 1 .. Len(df.rows) |-> df.rows[k][rc]]

\* run_number in list(df["run_number"])
RunPresent(df, run) ==
    \E k \in 1 .. Len(df.rows) : RunColumn(df)[k] = PyInt(run)

\* df.set_index('run_number')[key].to_dict()[runNr], '' when it raises:
\* the index column is no column any more, the key may be no column, the
\* run may be no index; of several rows of one run the last one counts
Lookup(df, key, runNr) ==
    IF key = "run_number" \/ ~HasCol(df, key) \/ ~RunPresent(df, runNr)
    THEN Empty
    ELSE LET k == CHOOSE k \in 1 .. Len(df.rows) :
                     /\ RunColumn(df)[k] = PyInt(runNr)
                     /\ \A q \in (k + 1) .. Len(df.rows) :
                            RunColumn(df)[q] # PyInt(runNr)
         IN  df.rows[k][KeyIndex(df.cols, key)]

\* (mutant of Walk: the walk ends ten runs below the requested one)
RECURSIVE WalkWindowed(_, _, _, _)
WalkWindowed(df, key, runNr, n) ==
    IF runNr > WalkFloor /\ n <= 10
    THEN LET this == Lookup(df, key, runNr)
         IN  IF this # Empty \/ HasComment(key)
             THEN [raised |-> "none", result |-> this, src |-> runNr,
                   walked |-> n + 1]
             ELSE WalkWindowed(df, key, runNr - 1, n + 1)
    ELSE [raised |-> "none", result |-> PyStr("n/a"), src |-> NoRun,
          walked |-> n]

\* (mutant of Walk: a comment key walks back like any other key)
RECURSIVE WalkInherit(_, _, _, _)
WalkInherit(df, key, runNr, n) ==
    IF runNr > WalkFloor
    THEN LET this == Lookup(df, key, runNr)
         IN  IF this # Empty
             THEN [raised |-> "none", result |-> this, src |-> runNr,
                   walked |-> n + 1]
             ELSE WalkInherit(df, key, runNr - 1, n + 1)
    ELSE [raised |-> "none", result |-> PyStr("n/a"), src |-> NoRun,
          walked |-> n]

\* (mutant of Walk: an empty comment is answered with the sentinel)
RECURSIVE WalkSentinel(_, _, _, _)
WalkSentinel(df, key, runNr, n) ==
    IF runNr > WalkFloor
    THEN LET this == Lookup(df, key, runNr)
         IN  IF this # Empty
             THEN [raised |-> "none", result |-> this, src |-> runNr,
                   walked |-> n + 1]
             ELSE IF HasComment(key)
             THEN [raised |-> "none", result |-> PyStr("n/a"), src |-> runNr,
                   walked |-> n + 1]
             ELSE WalkSentinel(df, key, runNr - 1, n + 1)
    ELSE [raised |-> "none", result |-> PyStr("n/a"), src |-> NoRun,
          walked |-> n]

\* the loop of lines 263-272: n counts the runs looked up so far
RECURSIVE Walk(_, _, _, _)
Walk(df, key, runNr, n) ==
    IF runNr > WalkFloor
    THEN LET this == Lookup(df, key, runNr)
         IN  IF this # Empty \/ HasComment(key)
             THEN [raised |-> "none", result |-> this, src |-> runNr,
                   walked |-> n + 1]
             ELSE Walk(df, key, runNr - 1, n + 1)
    ELSE [raised |-> "none", result |-> PyStr("n/a"), src |-> NoRun,
          walked |-> n]

\* get(key, run_number) on the clean frame df, after update returned
GetOutcome(df, key, run) ==
    IF ~HasCol(df, "run_number")
    THEN [raised |-> "KeyError", result |-> PyNone, src |-> NoRun, walked |-> 0]
    ELSE IF ~RunPresent(df, run)
    THEN [raised |-> "none", result |-> PyNone, src |-> NoRun, walked |-> 0]
    ELSE Walk(df, key, run, 0)

(***************************************************************************)
(* Shotsheet.get_unit                                                      *)
(***************************************************************************)
\* df.at[0, key]
GetUnitOutcome(df, key) ==
    IF HasCol(df, key) /\ Len(df.rows) > 0
    THEN [raised |-> "none", result |-> df.rows[1][KeyIndex(df.cols, key)]]
    ELSE [raised |-> "KeyError", result |-> PyNone]

(***************************************************************************)
(* Shotsheet.get_all: the values of the filter and of the converted       *)
(* columns.  A date is the number of its day, a time the number of its    *)
(* minute, a datetime the number of its minute since day 0.               *)
(***************************************************************************)
PyDate(d) == [t |-> "date", i |-> d, s |-> ""]
PyTime(m) == [t |-> "time", i |-> m, s |-> ""]
PyDateTime(d, m) == [t |-> "datetime", i |-> d * 1440 + m, s |-> ""]
\* pandas' NaT: what the empty string parses to
NaT == [t |-> "nat", i |-> 0, s |-> ""]
\* the value of a text that does not parse
Unparsed == [t |-> "error", i |-> 0, s |-> ""]

\* the texts of format '%m/%d/%Y' that occur, with their days
DateTexts == {<<"10/01/2023", 1>>, <<"10/02/2023", 2>>, <<"10/03/2023", 3>>}
\* the texts of format '%H:%M' that occur, with their minutes
TimeTexts == {<<"13:00", 780>>, <<"14:30", 870>>}

\* pd.to_datetime(v, format='%m/%d/%Y') of one value
ToDate(v) ==
    IF v = Empty THEN NaT
    ELSE IF v.t = "date" THEN v
    ELSE IF v.t = "str" /\ \E p \in DateTexts : p[1] = v.s
    THEN PyDate((CHOOSE p \in DateTexts : p[1] = v.s)[2])
    ELSE Unparsed

\* pd.to_datetime(v, format='%H:%M') and its time of day
ToTime(v) ==
    IF v = Empty THEN NaT
    ELSE IF v.t = "time" THEN v
    ELSE IF v.t = "str" /\ \E p \in TimeTexts : p[1] = v.s
    THEN PyTime((CHOOSE p \in TimeTexts : p[1] = v.s)[2])
    ELSE Unparsed

\* a >= b, a <= b, a < b of two Python values are defined when both are
\* ints, dates, times or datetimes of one kind; a date column compares
\* NaT with a date (never true); every other pair raises TypeError
Ordered(a, b) ==
    \/ a.t = b.t /\ a.t \in {"int", "date", "time", "datetime"}
    \/ a.t = "nat" /\ b.t \in {"date", "datetime"}

Le(a, b) == a.t = b.t /\ a.i <= b.i

Lt(a, b) == a.t = b.t /\ a.i < b.i

\* One entry of the filter dict: key, and a scalar (kind "eq", v), a list
\* (kind "in", vs) or a slice (kind "range", lo and hi).
Scalar(key, v) ==
    [key |-> key, kind |-> "eq", v |-> v, vs |-> {}, lo |-> PyNone, hi |-> PyNone]

List(key, vs) ==
    [key |-> key, kind |-> "in", v |-> PyNone, vs |-> vs, lo |-> PyNone,
     hi |-> PyNone]

Slice(key, lo, hi) ==
    [key |-> key, kind |-> "range", v |-> PyNone, vs |-> {}, lo |-> lo, hi |-> hi]

\* "key in filter"
InFilter(filter, key) == \E n \in 1 .. Len(filter) : filter[n].key = key

\* filter[key]; only used where InFilter holds
Entry(filter, key) ==
    filter[CHOOSE n \in 1 .. Len(filter) : filter[n].key = key]

\* the working copy of get_all: the frame, or the exception raised so far
Working(df) == [raised |-> "none", df |-> df]

Raise(w, exc) == [w EXCEPT !.raised = exc]

\* the column of key of a frame, as a sequence
Column(df, key) ==
    LET c == KeyIndex(df.cols, key)
    IN  [k \in 1 .. Len(df.rows) |-> df.rows[k][c]]

\* df[key] = values: the column replaced, or appended when it is new
SetColumn(df, key, values) ==
    IF HasCol(df, key)
    THEN LET c == KeyIndex(df.cols, key)
         IN  [df EXCEPT !.rows =
                 [k \in 1 .. Len(df.rows) |-> [df.rows[k] EXCEPT ![c] = values[k]]]]
    ELSE [cols |-> Append(df.cols, key),
          rows |-> [k \in 1 .. Len(df.rows) |-> Append(df.rows[k], values[k])]]

\* the rows of the frame whose index is in keep, in order
RECURSIVE SelectRows(_, _, _)
SelectRows(rows, keep, k) ==
    IF k > Len(rows) THEN <<>>
    ELSE (IF k \in keep THEN <<rows[k]>> ELSE <<>>)
            \o SelectRows(rows, keep, k + 1)

\* df = df[mask]
Masked(df, keep) == [df EXCEPT !.rows = SelectRows(df.rows, keep, 1)]

\* lines 340-345: df[key] = pd.to_datetime(df[key], format=...) for key
\* "Date", and its time of day for key "Time"
ConvertColumn(w, key) ==
    IF w.raised # "none" THEN w
    ELSE IF ~HasCol(w.df, key) THEN Raise(w, "KeyError")
    ELSE LET col == Column(w.df, key)
             new == [k \in 1 .. Len(col) |->
                        IF key = "Date" THEN ToDate(col[k]) ELSE ToTime(col[k])]
         IN  IF \E k \in 1 .. Len(col) : new[k] = Unparsed
             THEN Raise(w, "ValueError")
             ELSE [w EXCEPT !.df = SetColumn(w.df, key, new)]

\* df = df[(df[key] >= lo) & (df[key] <= hi)], the upper end excluded
\* when strict: both comparisons are made on the whole column and raise
\* TypeError when one of its values cannot be ordered with the bound
RangeFilter(w, key, lo, hi, strict) ==
    LET col == Column(w.df, key)
    IN  IF \E k \in 1 .. Len(col) : ~Ordered(col[k], lo) \/ ~Ordered(col[k], hi)
        THEN Raise(w, "TypeError")
        ELSE [w EXCEPT !.df = Masked(w.df,
                {k \in 1 .. Len(col) :
                    /\ Le(lo, col[k])
                    /\ IF strict THEN Lt(col[k], hi) ELSE Le(col[k], hi)})]

\* df = df[df[key].isin(vs)]
ListFilter(w, key, vs) ==
    LET col == Column(w.df, key)
    IN  IF Unparsed \in vs THEN Raise(w, "ValueError")
        ELSE [w EXCEPT !.df = Masked(w.df, {k \in 1 .. Len(col) : col[k] \in vs})]

\* df = df[df[key] == v]
ScalarFilter(w, key, v) ==
    LET col == Column(w.df, key)
    IN  IF v = Unparsed THEN Raise(w, "ValueError")
        ELSE [w EXCEPT !.df = Masked(w.df, {k \in 1 .. Len(col) : col[k] = v})]

\* the conversion lines 374-392 apply to the values of a list or a scalar
CriterionValue(key, v) ==
    IF key = "Date" THEN ToDate(v) ELSE IF key = "Time" THEN ToTime(v) ELSE v

\* lines 347-363: the DateTime column and its filter
DateTimeStep(w, filter) ==
    IF w.raised # "none" \/ ~InFilter(filter, "DateTime") THEN w
    ELSE IF ~HasCol(w.df, "Date") \/ ~HasCol(w.df, "Time")
    THEN Raise(w, "KeyError")
    ELSE LET ds == Column(w.df, "Date")
             ts == Column(w.df, "Time")
             e  == Entry(filter, "DateTime")
         IN  IF \E k \in 1 .. Len(ds) : ds[k].t # "date" \/ ts[k].t # "time"
             THEN Raise(w, "TypeError")
             ELSE LET w2 == [w EXCEPT !.df = SetColumn(w.df, "DateTime",
                                [k \in 1 .. Len(ds) |-> PyDateTime(ds[k].i, ts[k].i)])]
                  IN  IF e.kind = "range"
                      THEN RangeFilter(w2, "DateTime", e.lo, e.hi, FALSE)
                      ELSE IF e.kind = "in"
                      THEN ListFilter(w2, "DateTime", e.vs)
                      ELSE ScalarFilter(w2, "DateTime", e.v)

\* lines 367-406: one entry of the loop over filter.items()
ApplyEntry(w, e) ==
    IF w.raised # "none" \/ e.key = "DateTime" THEN w
    ELSE IF ~HasCol(w.df, e.key) THEN Raise(w, "KeyError")
    ELSE IF e.kind = "range"
    THEN RangeFilter(w, e.key, e.lo, e.hi, e.key = "Time")
    ELSE IF e.kind = "in"
    THEN ListFilter(w, e.key, {CriterionValue(e.key, v) : v \in e.vs})
    ELSE ScalarFilter(w, e.key, CriterionValue(e.key, e.v))

\* the loop of line 366, in the order of the dict
RECURSIVE ApplyEntries(_, _)
ApplyEntries(w, filter) ==
    IF Len(filter) = 0 THEN w
    ELSE ApplyEntries(ApplyEntry(w, Head(filter)), Tail(filter))

\* lines 334-406: the filtered copy of the selected clean frame
Filtered(df, filter) ==
    LET w0 == Working(df)
        w1 == IF InFilter(filter, "Date")
              THEN ConvertColumn(w0, "Date") ELSE w0
        w2 == IF InFilter(filter, "Time")
              THEN ConvertColumn(w1, "Time") ELSE w1
    IN  ApplyEntries(DateTimeStep(w2, filter), filter)

\* the value the sheet holds for key in the row of run ('' when key is no
\* column)
SheetValue(df, key, run) ==
    IF ~HasCol(df, key) THEN Empty
    ELSE LET k == CHOOSE k \in 1 .. Len(df.rows) : RunColumn(df)[k] = PyInt(run)
         IN  df.rows[k][KeyIndex(df.cols, key)]

\* line 417: self.get(record, r) on the clean frame snap; a run number
\* that is no int cannot be compared with -10
BuildValue(snap, key, r) ==
    IF r.t # "int" THEN [raised |-> "TypeError", result |-> PyNone]
    ELSE LET g == GetOutcome(snap, key, r.i)
         IN  [raised |-> g.raised, result |-> g.result]

\* lines 412-420 on the filtered frame df: row i of the result is built
\* from snap1 before the cache window elapses and from snap2 from row
\* lapse on (lapse = 0: the window does not elapse during the build)
Build(df, snap1, snap2, lapse) ==
    IF ~HasCol(df, "run_number")
    THEN [raised |-> "KeyError", keys |-> <<>>, rows |-> <<>>, fields |-> <<>>]
    ELSE LET runs == Column(df, "run_number")
             at(i) == IF lapse # 0 /\ i >= lapse THEN snap2 ELSE snap1
             cell(i, j) == BuildValue(at(i), df.cols[j], runs[i])
             bad == {p \in (1 .. Len(runs)) \X (1 .. Len(df.cols)) :
                        cell(p[1], p[2]).raised # "none"}
         IN  IF bad # {}
             THEN LET p == CHOOSE q \in bad :
                              \A o \in bad : q[1] < o[1]
                                  \/ (q[1] = o[1] /\ q[2] <= o[2])
                  IN  [raised |-> cell(p[1], p[2]).raised, keys |-> <<>>,
                       rows |-> <<>>, fields |-> <<>>]
             ELSE [raised |-> "none", keys |-> runs,
                   rows |-> [i \in 1 .. Len(runs) |->
                               [j \in 1 .. Len(df.cols) |-> cell(i, j).result]],
                   fields |-> df.cols]

\* get_all(python, filter) after its update returned, w being the
\* filtered copy of snap1, the selected clean frame, and snap2 the frame
\* that a refresh during the build selects
GetAllOutcome(w, snap1, snap2, lapse) ==
    IF w.raised # "none"
    THEN [raised |-> w.raised, keys |-> <<>>, rows |-> <<>>, fields |-> <<>>]
    ELSE Build(w.df, snap1, snap2, lapse)

(***************************************************************************)
(* Shotsheet.write                                                         *)
(***************************************************************************)
\* np.where(df['run_number'] == run_number)[0][0] succeeds
RowFound(df, run) == HasCol(df, "run_number") /\ RunPresent(df, run)

\* the 0-based row: the first record of the run, else the run number
RowOf(df, run) ==
    IF RowFound(df, run)
    THEN (CHOOSE k \in 1 .. Len(df.rows) :
            /\ RunColumn(df)[k] = PyInt(run)
            /\ \A q \in 1 .. (k - 1) : RunColumn(df)[q] # PyInt(run)) - 1
    ELSE run

\* lines 194-200: the run_number cell of a run that is not in the frame
RunCellStep(sheet, df, run, overwrite) ==
    IF RowFound(df, run)
    THEN [sheet |-> sheet, raised |-> "none", cells |-> <<>>]
    ELSE IF ~HasCol(df, "run_number")
    THEN [sheet |-> sheet, raised |-> "KeyError", cells |-> <<>>]
    ELSE LET r == run + 2
             c == GetLoc(df, "run_number") + 1
         IN  IF ~InGrid(r, c)
             THEN [sheet |-> sheet, raised |-> "APIError", cells |-> <<>>]
             ELSE IF sheet[r][c] = "" \/ overwrite
             THEN [sheet |-> UpdateCell(sheet, r, c, IntStr(run)),
                   raised |-> "none", cells |-> <<<<r, c>>>>]
             ELSE [sheet |-> sheet, raised |-> "none", cells |-> <<>>]

\* lines 203-210: the key is a column of the frame
KnownKeyStep(sheet, df, r, key, data, overwrite) ==
    LET c == GetLoc(df, key) + 1
    IN  IF ~InGrid(r, c)
        THEN [sheet |-> sheet, raised |-> "APIError", cells |-> <<>>,
              conflict |-> FALSE]
        ELSE IF sheet[r][c] = "" \/ overwrite
        THEN [sheet |-> UpdateCell(sheet, r, c, Str(data)), raised |-> "none",
              cells |-> <<<<r, c>>>>, conflict |-> FALSE]
        ELSE [sheet |-> sheet, raised |-> "none", cells |-> <<>>,
              conflict |-> TRUE]

\* (mutant of NewKeyStep: the data cell goes one column too far right)
NewKeyDataShifted(sheet, df, r, key, data, new_key) ==
    LET c == Len(df.cols) + 1
    IN  IF ~new_key
        THEN [sheet |-> sheet, raised |-> "none", cells |-> <<>>,
              conflict |-> FALSE]
        ELSE IF ~InGrid(1, c)
        THEN [sheet |-> sheet, raised |-> "APIError", cells |-> <<>>,
              conflict |-> FALSE]
        ELSE IF ~InGrid(r, c + 1)
        THEN [sheet |-> UpdateCell(sheet, 1, c, key), raised |-> "APIError",
              cells |-> <<<<1, c>>>>, conflict |-> FALSE]
        ELSE [sheet |-> UpdateCell(UpdateCell(sheet, 1, c, key), r, c + 1,
                                   Str(data)),
              raised |-> "none", cells |-> <<<<1, c>>, <<r, c + 1>>>>,
              conflict |-> FALSE]

\* lines 211-220: the key is no column of the frame
NewKeyStep(sheet, df, r, key, data, new_key) ==
    LET c == Len(df.cols) + 1
    IN  IF ~new_key
        THEN [sheet |-> sheet, raised |-> "none", cells |-> <<>>,
              conflict |-> FALSE]
        ELSE IF ~InGrid(1, c)
        THEN [sheet |-> sheet, raised |-> "APIError", cells |-> <<>>,
              conflict |-> FALSE]
        ELSE IF ~InGrid(r, c)
        THEN [sheet |-> UpdateCell(sheet, 1, c, key), raised |-> "APIError",
              cells |-> <<<<1, c>>>>, conflict |-> FALSE]
        ELSE [sheet |-> UpdateCell(UpdateCell(sheet, 1, c, key), r, c, Str(data)),
              raised |-> "none", cells |-> <<<<1, c>>, <<r, c>>>>,
              conflict |-> FALSE]

\* lines 189-222 on worksheet `sheet` with the raw frame df: the sheet
\* afterwards, the exception that leaves write, the cells written in order
WriteOutcome(sheet, df, key, data, run, new_key, overwrite) ==
    LET a == RunCellStep(sheet, df, run, overwrite)
        r == RowOf(df, run) + 2
    IN  IF a.raised # "none"
        THEN a @@ [conflict |-> FALSE]
        ELSE LET b == IF HasCol(df, key)
                      THEN KnownKeyStep(a.sheet, df, r, key, data, overwrite)
                      ELSE NewKeyStep(a.sheet, df, r, key, data, new_key)
             IN  [sheet |-> b.sheet, raised |-> b.raised,
                  cells |-> a.cells \o b.cells, conflict |-> b.conflict]

(***************************************************************************)
(* Metadata.write (src/metadata.py)                                        *)
(***************************************************************************)
\* metadata.py lines 133-138: the run_number cell of a run that is not in
\* the frame is written whatever it holds
MetaRunCellStep(sheet, df, run) ==
    IF RowFound(df, run)
    THEN [sheet |-> sheet, raised |-> "none", cells |-> <<>>]
    ELSE IF ~HasCol(df, "run_number")
    THEN [sheet |-> sheet, raised |-> "KeyError", cells |-> <<>>]
    ELSE LET r == run + 2
             c == GetLoc(df, "run_number") + 1
         IN  IF ~InGrid(r, c)
             THEN [sheet |-> sheet, raised |-> "APIError", cells |-> <<>>]
             ELSE [sheet |-> UpdateCell(sheet, r, c, IntStr(run)),
                   raised |-> "none", cells |-> <<<<r, c>>>>]

\* metadata.py lines 130-158 on worksheet `sheet` with the raw frame df
MetaWriteOutcome(sheet, df, key, data, run, new_key, overwrite) ==
    LET a == MetaRunCellStep(sheet, df, run)
        r == RowOf(df, run) + 2
    IN  IF a.raised # "none"
        THEN a @@ [conflict |-> FALSE]
        ELSE LET b == IF HasCol(df, key)
                      THEN KnownKeyStep(a.sheet, df, r, key, data, overwrite)
                      ELSE NewKeyStep(a.sheet, df, r, key, data, new_key)
             IN  [sheet |-> b.sheet, raised |-> b.raised,
                  cells |-> a.cells \o b.cells, conflict |-> b.conflict]

(***************************************************************************)
(* The public calls.  Every call starts dt after the previous one ended.   *)
(***************************************************************************)
Keys == {"temp", "comment", "k1"}
\* an int and the str that reads back as that int
Data == {PyInt(7), PyStr("7")}
\* within the cache window, at its edge, past it
Delays == {0, CacheTime, CacheTime + 1}
\* run numbers passed to write and, in Next and NextWrite, to get
OpRuns == 0 .. MaxRun
\* within the cache window, past it
InOrPast == {0, CacheTime + 1}
\* the keys and runs of the calls of Next and NextGet
FieldKeys == {"temp", "k1"}
WalkKeys == {"temp", "comment"}
OtherKeys == {"k1", "run_number"}
WalkRuns == {WalkFloor, WalkFloor + 1, 0, 1, 2, 3, 12}
PythonRuns == {1, 2}

\* the column of the header row `head` that holds key (0: none)
HeaderIndex(sheet, head, key) ==
    IF \E c \in Cols : sheet[head][c] = key
    THEN CHOOSE c \in Cols :
            sheet[head][c] = key /\ \A q \in 1 .. (c - 1) : sheet[head][q] # key
    ELSE 0

\* The record of a call: its arguments (dt, the delay since the previous
\* call; tr, the transport), what its update did (stale, fetches), what
\* it raised ("none": it returned), and per call: result, src (the run
\* whose row gave the result) and walked (the runs looked up) of get;
\* cells (the cells written, in order), conflict (the write was skipped
\* on a cell that is not empty) and hdr (the column where key was a
\* header of the remote sheet when the call began) of write; filter,
\* lapse (the row of the result from which the build saw a refreshed
\* cache, 0: none), refetch (the fetches made during the build), snap (the
\* clean frame the filter was applied to) and keys, fields and rows (the
\* result: its run numbers in order, its field names, and per run the
\* values of the fields) of get_all; prev, the last get call made before
\* this call in the cache window of this call (its arguments, its outcome
\* and the timestamp of the cache when it returned), which a get call
\* keeps only when its own arguments are the same; handle, slept and
\* attempts of _get_sheet_instance.
NoGet ==
    [op |-> "none", key |-> "", run |-> NoRun, python |-> FALSE,
     result |-> PyNone, raised |-> "none", at |-> 0]

NoCall ==
    [op |-> "init", key |-> "", run |-> NoRun, python |-> FALSE,
     new_key |-> FALSE, overwrite |-> FALSE, data |-> PyNone, dt |-> 0,
     tr |-> TransportOk, stale |-> FALSE, fetches |-> 0, raised |-> "none",
     result |-> PyNone, src |-> NoRun, walked |-> 0, cells |-> <<>>,
     conflict |-> FALSE, hdr |-> 0, filter |-> <<>>, lapse |-> 0,
     refetch |-> 0, snap |-> Unset, keys |-> <<>>, rows |-> <<>>,
     fields |-> <<>>, prev |-> NoGet, handle |-> TRUE, slept |-> 0,
     attempts |-> 0]

\* the part of a call that is self.update(): the cache and the clock
Refresh(u) ==
    /\ records_raw' = u.raw
    /\ records_python_raw' = u.praw
    /\ records' = u.clean
    /\ records_python' = u.pclean
    /\ lastUpdate' = u.last
    /\ now' = u.now

\* the first call follows the construction at once; the transport of a
\* call that does not fetch is of no account
CallGuard(dt, tr) ==
    /\ nops < MaxOps
    /\ (call.op = "init" => dt = 0)
    /\ (Stale(now + dt) \/ tr = TransportOk)

CallStart(u, op, dt, tr) ==
    [NoCall EXCEPT !.op = op, !.dt = dt, !.tr = tr, !.stale = u.stale,
                   !.fetches = u.fetches, !.raised = u.raised,
                   !.prev = IF u.stale THEN NoGet
                            ELSE IF call.op = "get"
                            THEN [op |-> "get", key |-> call.key,
                                  run |-> call.run, python |-> call.python,
                                  result |-> call.result,
                                  raised |-> call.raised, at |-> lastUpdate]
                            ELSE call.prev]

\* update()
Update(dt, tr) ==
    /\ CallGuard(dt, tr)
    /\ \E u \in {UpdateOutcome(now + dt, tr)} :
           /\ Refresh(u)
           /\ call' = CallStart(u, "update", dt, tr)
    /\ nops' = nops + 1
    /\ UNCHANGED <<srcSheet, wrSheet>>

\* get(key, run_number, python), its arguments drawn from K, R and P
Get(dt, tr, K, R, P) ==
    /\ CallGuard(dt, tr)
    /\ \E u \in {UpdateOutcome(now + dt, tr)} :
       \E key \in K, run \in R, python \in P :
       LET c0 == [CallStart(u, "get", dt, tr) EXCEPT
                     !.key = key, !.run = run, !.python = python,
                     !.prev = IF @.key = key /\ @.run = run
                                 /\ @.python = python
                              THEN @ ELSE NoGet]
           g  == GetOutcome(IF python THEN u.pclean ELSE u.clean, key, run)
       IN  /\ Refresh(u)
           /\ call' = IF u.raised # "none" THEN c0
                      ELSE [c0 EXCEPT !.raised = g.raised, !.result = g.result,
                                      !.src = g.src, !.walked = g.walked]
    /\ nops' = nops + 1
    /\ UNCHANGED <<srcSheet, wrSheet>>

\* get_unit(key, write), its arguments drawn from K and P
GetUnit(dt, tr, K, P) ==
    /\ CallGuard(dt, tr)
    /\ \E u \in {UpdateOutcome(now + dt, tr)} :
       \E key \in K, write \in P :
       LET c0 == [CallStart(u, "get_unit", dt, tr) EXCEPT
                     !.key = key, !.python = write]
           g  == GetUnitOutcome(IF write THEN u.praw ELSE u.raw, key)
       IN  /\ Refresh(u)
           /\ call' = IF u.raised # "none" THEN c0
                      ELSE [c0 EXCEPT !.raised = g.raised, !.result = g.result]
    /\ nops' = nops + 1
    /\ UNCHANGED <<srcSheet, wrSheet>>

\* write(key, data, run_number, python, new_key, overwrite), its arguments
\* drawn from K, D, R, P, N and O; with python=False line 186 reads
\* self._worksheet_instance, which no line sets
Write(dt, tr, K, D, R, P, N, O) ==
    /\ CallGuard(dt, tr)
    /\ \E u \in {UpdateOutcome(now + dt, tr)} :
       \E key \in K, data \in D, run \in R, python \in P, new_key \in N,
          overwrite \in O :
       LET c0 == [CallStart(u, "write", dt, tr) EXCEPT
                     !.key = key, !.run = run, !.python = python,
                     !.data = data, !.new_key = new_key,
                     !.overwrite = overwrite,
                     !.hdr = IF python
                             THEN HeaderIndex(wrSheet, WriteHead, key)
                             ELSE HeaderIndex(srcSheet, SrcHead, key)]
       IN  /\ Refresh(u)
           /\ IF u.raised # "none"
              THEN call' = c0 /\ wrSheet' = wrSheet
              ELSE IF ~python
              THEN /\ call' = [c0 EXCEPT !.raised = "AttributeError"]
                   /\ wrSheet' = wrSheet
              ELSE \E w \in {WriteOutcome(wrSheet, u.praw, key, data, run,
                                           new_key, overwrite)} :
                   /\ call' = [c0 EXCEPT !.raised = w.raised, !.cells = w.cells,
                                         !.conflict = w.conflict]
                   /\ wrSheet' = w.sheet
    /\ nops' = nops + 1
    /\ UNCHANGED srcSheet

\* get_all(python, filter), its arguments drawn from F and P; L gives the
\* rows of the result at which the cache window may elapse during the
\* build, the refresh then made fetching the sheets as they are
GetAll(dt, tr, F, P, L) ==
    /\ CallGuard(dt, tr)
    /\ \E u \in {UpdateOutcome(now + dt, tr)} :
       \E filter \in F, python \in P, l \in L :
       \E w \in {Filtered(IF python THEN u.pclean ELSE u.clean, filter)} :
       LET c0 == [CallStart(u, "get_all", dt, tr) EXCEPT
                     !.python = python, !.filter = filter]
           snap1 == IF python THEN u.pclean ELSE u.clean
           n  == IF u.raised # "none" \/ w.raised # "none" THEN 0
                 ELSE Len(w.df.rows)
           lapse == IF l <= n THEN l ELSE 0
           t2 == u.last + CacheTime + 1
       IN  IF u.raised # "none"
           THEN Refresh(u) /\ call' = c0
           ELSE IF lapse = 0
           THEN \E g \in {GetAllOutcome(w, snap1, snap1, 0)} :
                /\ Refresh(u)
                /\ call' = [c0 EXCEPT !.raised = g.raised, !.snap = snap1,
                                      !.keys = g.keys, !.rows = g.rows,
                                      !.fields = g.fields]
           ELSE \E p \in {Partition(GetAllRecords(srcSheet, SrcHead),
                                    GetAllRecords(wrSheet, WriteHead), t2)} :
                IF p.raised # "none"
                THEN /\ Refresh([raw |-> p.raw, praw |-> p.praw,
                                 clean |-> u.clean, pclean |-> u.pclean,
                                 last |-> u.last, now |-> t2])
                     /\ call' = [c0 EXCEPT !.raised = p.raised,
                                           !.lapse = lapse, !.refetch = 1,
                                           !.snap = snap1]
                ELSE \E g \in {GetAllOutcome(w, snap1,
                                    IF python THEN p.pclean ELSE p.clean,
                                    lapse)} :
                     /\ Refresh([raw |-> p.raw, praw |-> p.praw,
                                 clean |-> p.clean, pclean |-> p.pclean,
                                 last |-> t2, now |-> t2])
                     /\ call' = [c0 EXCEPT !.raised = g.raised,
                                           !.lapse = lapse, !.refetch = 1,
                                           !.snap = snap1, !.keys = g.keys,
                                           !.rows = g.rows,
                                           !.fields = g.fields]
    /\ nops' = nops + 1
    /\ UNCHANGED <<srcSheet, wrSheet>>

\* _get_sheet_instance() called under transport tr, as set_sheet and
\* set_worksheet call it: it only takes time
GetSheetInstanceCall(T) ==
    /\ nops < MaxOps
    /\ \E tr \in T :
       \E g \in {GetSheetInstance(tr)} :
          /\ now' = now + g.slept
          /\ call' = [CallStart([stale |-> FALSE, fetches |-> 0,
                                  raised |-> "none"], "connect", 0, tr)
                         EXCEPT !.handle = g.handle, !.slept = g.slept,
                                !.attempts = g.attempts]
    /\ nops' = nops + 1
    /\ UNCHANGED <<srcSheet, wrSheet, records_raw, records_python_raw,
                   records, records_python, lastUpdate>>

\* Metadata.write(key, data, run_number, python=True, new_key, overwrite):
\* it makes no refresh and works on the raw frame of the write sheet
MetaWrite(D, K, R, N, O) ==
    /\ nops < MaxOps
    /\ \E dt \in D, key \in K, run \in R, new_key \in N, overwrite \in O :
       \E w \in {MetaWriteOutcome(wrSheet, records_python_raw, key,
                                   PyInt(7), run, new_key, overwrite)} :
          /\ now' = now + dt
          /\ wrSheet' = w.sheet
          /\ call' = [CallStart([stale |-> FALSE, fetches |-> 0,
                                  raised |-> "none"], "meta_write", dt,
                                 TransportOk)
                         EXCEPT !.key = key, !.run = run, !.python = TRUE,
                                !.data = PyInt(7), !.new_key = new_key,
                                !.overwrite = overwrite,
                                !.hdr = HeaderIndex(wrSheet, WriteHead, key),
                                !.raised = w.raised, !.cells = w.cells,
                                !.conflict = w.conflict]
    /\ nops' = nops + 1
    /\ UNCHANGED <<srcSheet, records_raw, records_python_raw, records,
                   records_python, lastUpdate>>

\* another writer edits the source sheet: it becomes another sheet of S
RemoteEdit(S) ==
    /\ \E sh \in S : sh # srcSheet /\ srcSheet' = sh
    /\ UNCHANGED <<wrSheet, records_raw, records_python_raw, records,
                   records_python, lastUpdate, now, call, nops>>

\* another writer adds a row for a run that the write sheet does not hold
\* yet, below its last used row
RemoteAdd(R) ==
    /\ LastRow(wrSheet) < MaxRow
    /\ \E run \in R :
          /\ \A r \in Rows : wrSheet[r][1] # IntStr(run)
          /\ wrSheet' = UpdateCell(wrSheet, LastRow(wrSheet) + 1, 1, IntStr(run))
    /\ UNCHANGED <<srcSheet, records_raw, records_python_raw, records,
                   records_python, lastUpdate, now, call, nops>>

(***************************************************************************)
(* Initial worksheets.                                                     *)
(***************************************************************************)
\* a sheet from its rows, padded to the grid
SheetOf(rows) ==
    [r \in Rows |-> [c \in Cols |->
        IF r <= Len(rows) /\ c <= Len(rows[r]) THEN rows[r][c] ELSE ""]]

\* write sheets: the keys in row 1, the records from row 2 on
WriteSheets ==
    { SheetOf(<< <<"run_number", "temp">>, <<"0", "a">>, <<"1", "">> >>),
      SheetOf(<< <<"run_number", "temp">>, <<"1", "a">> >>),
      SheetOf(<< <<"run_number", "temp">> >>) }

\* source sheets: a title in row 1, the keys in row 2, the units in row 3,
\* the records from row 4 on
SourceOf(rs) ==
    SheetOf(<< <<"logbook">>, <<"run_number", "temp", "comment">>,
               <<"", "K", "">> >> \o rs)

SourceSheet0 == SourceOf(<< <<"0", "20", "">>, <<"1", "", "ok">> >>)

\* three runs each: one more than ten runs, one exactly ten runs and one
\* run before the last; three runs around the floor of the walk
RunTriples == { <<1, 2, 12>>, <<WalkFloor, WalkFloor + 1, 0>> }

SourceSheets ==
    { SourceOf([k \in 1 .. 3 |-> <<IntStr(rt[k]), tv[k], cv[k]>>]) :
        rt \in RunTriples,
        tv \in {"", "a"} \X {"", "b"} \X {"", "c"},
        cv \in {"", "x"} \X {"", "y"} \X {""} }

WriteSheet0 ==
    SheetOf(<< <<"run_number", "temp">>, <<"1", "a">>, <<"2", "">> >>)

InitCache ==
    /\ records_raw = Unset
    /\ records_python_raw = Unset
    /\ records = Unset
    /\ records_python = Unset
    /\ lastUpdate = 0
    /\ now = CacheTime + 1
    /\ call = NoCall
    /\ nops = 0

Init ==
    /\ srcSheet = SourceSheet0
    /\ wrSheet \in WriteSheets
    /\ InitCache

\* the calls of the cache: every delay and every transport, few arguments
Next ==
    \/ \E dt \in Delays, tr \in Transports : Update(dt, tr)
    \/ \E dt \in Delays, tr \in Transports :
          Get(dt, tr, FieldKeys, {MaxRun}, BOOLEAN)
    \/ \E dt \in Delays, tr \in Transports :
          GetUnit(dt, tr, FieldKeys, BOOLEAN)
    \/ \E dt \in Delays, tr \in Transports :
          Write(dt, tr, FieldKeys, {PyInt(7)}, {MaxRun}, BOOLEAN, BOOLEAN,
                {FALSE})

Spec == Init /\ [][Next]_vars

\* the calls of the write protocol: every argument, within the cache
\* window and past it, the transport fine; "a" is the value the write
\* sheets hold for "temp"
NextWrite ==
    \/ \E dt \in InOrPast : Update(dt, TransportOk)
    \/ \E dt \in InOrPast :
          Get(dt, TransportOk, Keys, OpRuns, {TRUE})
    \/ \E dt \in InOrPast :
          Write(dt, TransportOk, Keys, Data, OpRuns, {TRUE}, BOOLEAN, BOOLEAN)
    \/ \E dt \in InOrPast :
          Write(dt, TransportOk, {"temp"}, {PyStr("a")}, OpRuns, {TRUE},
                {FALSE}, BOOLEAN)
    \/ \E dt \in InOrPast :
          Write(dt, TransportOk, Keys, {PyInt(7)}, OpRuns, {FALSE}, {FALSE},
                BOOLEAN)

SpecWrite == Init /\ [][NextWrite]_vars

\* lookups over a family of source sheets
InitGet ==
    /\ srcSheet \in SourceSheets
    /\ wrSheet = WriteSheet0
    /\ InitCache

NextGet ==
    \/ \E dt \in InOrPast :
          Get(dt, TransportOk, WalkKeys, WalkRuns, {FALSE})
    \/ \E dt \in InOrPast :
          Get(dt, TransportOk, OtherKeys, {12}, {FALSE})
    \/ \E dt \in InOrPast :
          Get(dt, TransportOk, {"temp"}, PythonRuns, {TRUE})

SpecGet == InitGet /\ [][NextGet]_vars

\* source sheets for get_all: a numeric field, a date and a time per run,
\* or a numeric field and a comment
DatedOf(rs) ==
    SheetOf(<< <<"logbook">>, <<"run_number", "val", "Date", "Time">>,
               <<"", "V", "", "">> >> \o rs)

DatedSheets ==
    { DatedOf(<< <<"1", "5", "10/01/2023", "13:00">>,
                 <<"2", "15", "10/02/2023", "14:30">>,
                 <<"3", "20", "10/03/2023", "13:00">> >>),
      DatedOf(<< <<"1", "5", "10/01/2023", "13:00">>,
                 <<"2", "", "", "14:30">>,
                 <<"3", "15", "10/03/2023", "13:00">> >>) }

CommentedOf(rs) ==
    SheetOf(<< <<"logbook">>, <<"run_number", "val", "comment">>,
               <<"", "V", "">> >> \o rs)

CommentedSheets ==
    { CommentedOf(<< <<"1", "5", "x">>, <<"2", "", "">>, <<"3", "15", "x">> >>),
      CommentedOf(<< <<"1", "15", "">>, <<"3", "", "x">> >>) }

QuerySheets == DatedSheets \cup CommentedSheets

\* the filters of the calls: none, one entry of each kind on the numeric
\* field, on Date and on Time, two entries in either order, and DateTime
ValRange == Slice("val", PyInt(5), PyInt(15))
DateRange == Slice("Date", PyDate(1), PyDate(2))
TimeRange == Slice("Time", PyTime(780), PyTime(870))
DateTimeRange == Slice("DateTime", PyDateTime(1, 780), PyDateTime(2, 870))
IsX == Scalar("comment", PyStr("x"))
\* criteria that every dated row satisfies
AllDates == Slice("Date", PyDate(1), PyDate(3))
AllTimes == Slice("Time", PyTime(780), PyTime(871))

Filters ==
    { <<>>,
      <<Scalar("val", PyInt(5))>>,
      <<List("val", {PyInt(5), PyInt(15)})>>,
      <<ValRange>>,
      <<Scalar("Date", PyStr("10/03/2023"))>>,
      <<List("Date", {PyStr("10/01/2023"), PyStr("10/03/2023")})>>,
      <<DateRange>>,
      <<Scalar("Time", PyStr("13:00"))>>,
      <<List("Time", {PyStr("14:30")})>>,
      <<TimeRange>>,
      <<ValRange, IsX>>,
      <<IsX, ValRange>>,
      <<DateRange, Scalar("val", PyInt(5))>>,
      <<Scalar("val", PyInt(5)), DateRange>>,
      <<DateTimeRange>>,
      <<Scalar("DateTime", PyDateTime(1, 780))>>,
      <<List("DateTime", {PyDateTime(1, 780), PyDateTime(3, 780)})>>,
      <<DateRange, TimeRange, DateTimeRange>>,
      <<AllDates, AllTimes, DateTimeRange>> }

PythonFilters == { <<>>, <<Scalar("temp", PyStr("a"))>> }

\* the rows at which the cache window may elapse during a build, and the
\* filters of the calls during which it does
Lapses == {1, 2}

LapseFilters == { <<>>, <<ValRange>>, <<Scalar("Time", PyStr("13:00"))>> }

InitAll ==
    /\ srcSheet \in QuerySheets
    /\ wrSheet = WriteSheet0
    /\ InitCache

\* queries on a source sheet that other writers edit
NextAll ==
    \/ \E dt \in InOrPast : GetAll(dt, TransportOk, Filters, {FALSE}, {0})
    \/ \E dt \in InOrPast :
          GetAll(dt, TransportOk, LapseFilters, {FALSE}, Lapses)
    \/ \E dt \in InOrPast : GetAll(dt, TransportOk, PythonFilters, {TRUE}, {0})
    \/ RemoteEdit(QuerySheets)

SpecAll == InitAll /\ [][NextAll]_vars

\* a source sheet whose header row no longer names run_number (the header
\* cell was renamed by another writer), next to sheets that name it
RenamedSheet ==
    SheetOf(<< <<"logbook">>, <<"run", "temp", "comment">>, <<"", "K", "">>,
               <<"0", "20", "">>, <<"1", "", "ok">> >>)

UpdateSheets ==
    { SourceSheet0, RenamedSheet,
      SourceOf(<< <<"0", "21", "">>, <<"", "", "">>, <<"2", "", "">> >>) }

InitUpdate ==
    /\ srcSheet \in UpdateSheets
    /\ wrSheet \in WriteSheets
    /\ InitCache

\* refreshes of the cache of a source sheet that other writers edit
NextUpdate ==
    \/ \E dt \in Delays, tr \in Transports : Update(dt, tr)
    \/ RemoteEdit(UpdateSheets)

SpecUpdate == InitUpdate /\ [][NextUpdate]_vars

\* the calls of a behaviour of SpecWindow, whose count of calls starts
\* below zero: a get, a write, and the same get again
WindowCalls == 3

WindowSheets == { SourceSheet0, SourceOf(<< <<"0", "21", "new">> >>) }

InitWindow ==
    /\ srcSheet = SourceSheet0
    /\ wrSheet = WriteSheet0
    /\ records_raw = Unset
    /\ records_python_raw = Unset
    /\ records = Unset
    /\ records_python = Unset
    /\ lastUpdate = 0
    /\ now = CacheTime + 1
    /\ call = NoCall
    /\ nops = MaxOps - WindowCalls

\* gets of one cell, before and after writes of this instance and edits
\* of other writers
NextWindow ==
    \/ \E dt \in Delays : Get(dt, TransportOk, {"temp"}, {1}, BOOLEAN)
    \/ \E dt \in Delays :
          Write(dt, TransportOk, {"temp"}, {PyInt(7)}, {1}, {TRUE}, {FALSE},
                {TRUE})
    \/ RemoteEdit(WindowSheets)

SpecWindow == InitWindow /\ [][NextWindow]_vars

\* the runs that this instance and other writers add to the write sheet
AddedRuns == {2, 3}

InitRows ==
    /\ srcSheet = SourceSheet0
    /\ wrSheet \in WriteSheets
    /\ InitCache

\* writes of this instance to a write sheet to which other writers add runs
NextRows ==
    \/ \E dt \in InOrPast :
          Write(dt, TransportOk, {"temp"}, {PyInt(7)}, AddedRuns, {TRUE},
                {FALSE}, BOOLEAN)
    \/ RemoteAdd(AddedRuns)

SpecRows == InitRows /\ [][NextRows]_vars

\* the transports of a connection: from no failing attempt to one more
\* than the loop makes
ConnectTransports ==
    {[f1 |-> FALSE, k |-> k, f2 |-> TRUE] : k \in 0 .. MaxRetries + 1}

\* connections and refreshes at every number of failing attempts
NextConnect ==
    \/ GetSheetInstanceCall(ConnectTransports)
    \/ \E dt \in Delays, tr \in ConnectTransports : Update(dt, tr)

SpecConnect == Init /\ [][NextConnect]_vars

\* Metadata.__init__ ends with self.update(): the cache holds the
\* records of the two sheets
InitMeta ==
    /\ srcSheet = SourceSheet0
    /\ wrSheet \in WriteSheets
    /\ now = CacheTime + 1
    /\ \E p \in {Partition(GetAllRecords(srcSheet, SrcHead),
                            GetAllRecords(wrSheet, WriteHead), now)} :
          /\ records_raw = p.raw
          /\ records_python_raw = p.praw
          /\ records = p.clean
          /\ records_python = p.pclean
          /\ lastUpdate = p.last
    /\ call = NoCall
    /\ nops = 0

\* the writes of a Metadata instance, and its refreshes
NextMeta ==
    \/ MetaWrite(Delays, WalkKeys, AddedRuns, BOOLEAN, BOOLEAN)
    \/ MetaWrite(Delays, WalkKeys, OpRuns, BOOLEAN, BOOLEAN)
    \/ \E dt \in Delays : Update(dt, TransportOk)

SpecMeta == InitMeta /\ [][NextMeta]_vars

(***************************************************************************)
(* Properties of get.                                                      *)
(***************************************************************************)
\* the clean record set the last call selected
Consulted == IF call.python THEN records_python ELSE records

\* the update of the last call was due and did not complete
RefreshFailed == call.stale /\ lastUpdate # now

\* the last call was a get of a run of the selected clean record set
GetOfPresentRun ==
    /\ call.op = "get"
    /\ ~RefreshFailed
    /\ HasCol(Consulted, "run_number")
    /\ RunPresent(Consulted, call.run)

\* the runs lo .. run-1 that hold a value for key
EarlierSet(df, key, run, lo) ==
    {r \in lo .. (run - 1) :
        RunPresent(df, r) /\ SheetValue(df, key, r) # Empty}

\* the value of the nearest of them, "n/a" when there is none
NearestEarlier(df, key, run, lo) ==
    LET e == EarlierSet(df, key, run, lo)
    IN  IF e = {} THEN PyStr("n/a")
        ELSE SheetValue(df, key, CHOOSE r \in e : \A q \in e : q <= r)

EmptyAtRun ==
    /\ GetOfPresentRun
    /\ ~HasComment(call.key)
    /\ SheetValue(Consulted, call.key, call.run) = Empty

C3_DirectHit ==
    (GetOfPresentRun /\ SheetValue(Consulted, call.key, call.run) # Empty) =>
        /\ call.raised = "none"
        /\ call.result = SheetValue(Consulted, call.key, call.run)
        /\ call.src = call.run
        /\ call.walked = 1

\* C9 (as claimed): a get of a run that is not among the run identifiers of
\* the selected clean record set returns "n/a" and does not raise.
C9_RunNotFound ==
    (/\ call.op = "get"
     /\ ~RefreshFailed
     /\ HasCol(Consulted, "run_number")
     /\ ~RunPresent(Consulted, call.run)) =>
        (call.raised = "none" /\ call.result = PyStr("n/a"))

\* C10: a get of a present run for a key containing "comment" never
\* returns the value stored for a different run: its result is the value
\* at the requested run, read from that run's row, or the "n/a" of a walk
\* that looked up no run.
C10_CommentsDoNotInherit ==
    (GetOfPresentRun /\ HasComment(call.key)) =>
        /\ call.raised = "none"
        /\ call.src \in {call.run, NoRun}
        /\ call.src = call.run =>
              call.result = SheetValue(Consulted, call.key, call.run)
        /\ call.src = NoRun => (call.result = PyStr("n/a") /\ call.walked = 0)

\* a get of an empty comment at run 12 while run 2 holds a comment
C10_Witness ==
    /\ GetOfPresentRun
    /\ call.key = "comment"
    /\ call.run = 12
    /\ SheetValue(Consulted, "comment", 2) # Empty
    /\ SheetValue(Consulted, "comment", 12) = Empty
    /\ call.result = Empty

\* the last call was a get of a present run for a comment key whose value
\* at that run is empty
EmptyCommentAtRun ==
    /\ GetOfPresentRun
    /\ HasComment(call.key)
    /\ SheetValue(Consulted, call.key, call.run) = Empty

\* C11 (as claimed): a get of a present run for a key containing "comment"
\* whose value at that run is empty returns "n/a".
C11_EmptyCommentSentinel ==
    EmptyCommentAtRun => call.result = PyStr("n/a")

\* C11 (amended): such a get returns the empty string '' when the run is
\* above the floor of the walk, and "n/a" only when the run is at or below
\* the floor, where no row is read; it does not raise.
C11_EmptyCommentIsEmpty ==
    EmptyCommentAtRun =>
        /\ call.raised = "none"
        /\ call.result = IF call.run > WalkFloor THEN Empty ELSE PyStr("n/a")

\* a get of the empty comment of run 1, answered with ''
C11_Witness ==
    /\ EmptyCommentAtRun
    /\ call.run = 1
    /\ call.walked = 1
    /\ call.result = Empty

(***************************************************************************)
(* Properties of the cache.                                                *)
(***************************************************************************)
\* this step is a public call
IsCall == nops' = nops + 1

\* the update of the last call fetched and completed
Refreshed == call.fetches > 0 /\ lastUpdate = now

C5_DegradedReads ==
    (/\ call.op \in {"update", "get", "get_unit"}
     /\ call.stale
     /\ ~call.tr.f1
     /\ (call.tr.k = MaxRetries \/ ~call.tr.f2)
     /\ records # Unset) =>
        call.raised = "none"

(***************************************************************************)
(* Properties of write.                                                    *)
(***************************************************************************)
\* the cells the call of this step wrote
Written == {call'.cells[i] : i \in 1 .. Len(call'.cells)}

\* C1 (as claimed): a write with overwrite=False leaves every cell that
\* is not empty as it is.
C1_NonClobber ==
    [][(IsCall /\ call'.op = "write" /\ ~call'.overwrite) =>
         \A r \in Rows, c \in Cols :
            /\ wrSheet[r][c] # "" => wrSheet'[r][c] = wrSheet[r][c]
            /\ srcSheet[r][c] # "" => srcSheet'[r][c] = srcSheet[r][c]]_vars

\* the first column of the write sheet without a header (0: none)
FirstFreeColumn ==
    IF \E c \in Cols : wrSheet[WriteHead][c] = ""
    THEN CHOOSE c \in Cols :
            /\ wrSheet[WriteHead][c] = ""
            /\ \A q \in 1 .. (c - 1) : wrSheet[WriteHead][q] # ""
    ELSE 0

\* C7 (as claimed): a write with new_key=True for a key that is no header
\* of the sheet, when it returns, has written exactly one header cell, in
\* the first column without a header, and exactly one data cell in that
\* column, and the key is the header of that column.
C7_NewFieldAppend ==
    [][(/\ IsCall
        /\ call'.op = "write"
        /\ call'.python
        /\ call'.new_key
        /\ call'.hdr = 0
        /\ call'.raised = "none") =>
         /\ {x \in Written : x[1] = WriteHead} = {<<WriteHead, FirstFreeColumn>>}
         /\ Cardinality({x \in Written :
                            x[1] > WriteHead /\ x[2] = FirstFreeColumn}) = 1
         /\ wrSheet'[WriteHead][FirstFreeColumn] = call'.key]_vars

\* the raw frame and the worksheet a write with this `python` works on
RawOf(python)    == IF python THEN records_python_raw' ELSE records_raw'
SheetBefore(python) == IF python THEN wrSheet ELSE srcSheet
SheetAfter(python)  == IF python THEN wrSheet' ELSE srcSheet'

\* C8 (as claimed): a write on a column and a run of the snapshot returns
\* normally and changes no cell when the target cell is not empty and
\* overwrite=False; otherwise the target cell becomes str(value) and no
\* other cell changes.
C8_ConflictHandling ==
    [][(/\ IsCall
        /\ call'.op = "write"
        /\ call'.fetches > 0 => lastUpdate' = now'
        /\ RawOf(call'.python) # Unset
        /\ HasCol(RawOf(call'.python), call'.key)
        /\ RowFound(RawOf(call'.python), call'.run)) =>
         LET df == RawOf(call'.python)
             r  == RowOf(df, call'.run) + 2
             c  == GetLoc(df, call'.key) + 1
             sh == SheetBefore(call'.python)
         IN  IF sh[r][c] # "" /\ ~call'.overwrite
             THEN /\ call'.raised = "none"
                  /\ wrSheet' = wrSheet /\ srcSheet' = srcSheet
             ELSE /\ SheetAfter(call'.python) =
                        UpdateCell(sh, r, c, Str(call'.data))
                  /\ SheetAfter(~call'.python) = SheetBefore(~call'.python)]_vars

\* the same on the write sheet alone
ConflictHandlingOnWriteSheet ==
    [][(/\ IsCall
        /\ call'.op = "write"
        /\ call'.python
        /\ call'.fetches > 0 => lastUpdate' = now'
        /\ HasCol(records_python_raw', call'.key)
        /\ RowFound(records_python_raw', call'.run)) =>
         LET df == records_python_raw'
             r  == RowOf(df, call'.run) + 2
             c  == GetLoc(df, call'.key) + 1
         IN  IF wrSheet[r][c] # "" /\ ~call'.overwrite
             THEN /\ call'.raised = "none" /\ call'.conflict
                  /\ wrSheet' = wrSheet /\ srcSheet' = srcSheet
             ELSE /\ call'.raised = "none"
                  /\ wrSheet' = UpdateCell(wrSheet, r, c, Str(call'.data))
                  /\ srcSheet' = srcSheet]_vars

\* C12 (as claimed): a write with new_key=False for a key that is no
\* column of the target sheet changes no cell of either sheet, whatever
\* the run number.
C12_FieldNotFoundNoWrite ==
    [][(/\ IsCall
        /\ call'.op = "write"
        /\ ~call'.new_key
        /\ call'.hdr = 0) =>
         (wrSheet' = wrSheet /\ srcSheet' = srcSheet)]_vars

\* this step is a get on the write sheet of the key and run that the
\* previous call, a write with new_key=True of a key that was no header,
\* wrote and returned from
GetAfterNewKeyWrite ==
    /\ call.op = "write"
    /\ call.python
    /\ call.new_key
    /\ call.hdr = 0
    /\ call.raised = "none"
    /\ IsCall
    /\ call'.op = "get"
    /\ call'.python
    /\ call'.key = call.key
    /\ call'.run = call.run

\* the row of the last cell the previous call wrote holds its run number
WroteOwnRow ==
    /\ Len(call.cells) >= 1
    /\ LET d == call.cells[Len(call.cells)]
       IN  wrSheet[d[1]][HeaderIndex(wrSheet, WriteHead, "run_number")]
             = IntStr(call.run)

NotHeld == {PyStr("n/a"), Empty, PyNone}

Read(key, v) ==
    IF key = "Date" THEN ToDate(v) ELSE IF key = "Time" THEN ToTime(v) ELSE v

\* the cell value v satisfies the filter entry e
Meets(v, e) ==
    LET x == Read(e.key, v)
    IN  IF e.kind = "eq" THEN x = Read(e.key, e.v)
        ELSE IF e.kind = "in" THEN x \in {Read(e.key, y) : y \in e.vs}
        ELSE /\ x.t = e.lo.t
             /\ e.lo.i <= x.i
             /\ IF e.key = "Time" THEN x.i < e.hi.i ELSE x.i <= e.hi.i

\* the runs of the frame whose own row satisfies every entry
Satisfying(df, filter) ==
    {df.rows[k][KeyIndex(df.cols, "run_number")] :
        k \in {k \in 1 .. Len(df.rows) :
                 \A n \in 1 .. Len(filter) :
                    Meets(df.rows[k][KeyIndex(df.cols, filter[n].key)],
                          filter[n])}}

\* a get_all call whose refresh succeeded, finished within one cache
\* window, with a filter on fields of the sheet
QueryOnFields ==
    /\ call.op = "get_all"
    /\ call.snap # Unset
    /\ call.lapse = 0
    /\ \A n \in 1 .. Len(call.filter) : HasCol(call.snap, call.filter[n].key)

\* C13: the keys of the result of get_all are exactly the runs of the
\* clean snapshot whose own row satisfies every filter entry (equality,
\* membership, low <= v <= high, and low <= v < high on Time); the empty
\* filter returns every run and the order of the entries does not matter
C13_FilterSemantics ==
    QueryOnFields =>
        /\ call.raised = "none"
        /\ {call.keys[k] : k \in 1 .. Len(call.keys)}
              = Satisfying(call.snap, call.filter)

\* a get_all call that returned a result
QueryReturned ==
    call.op = "get_all" /\ call.snap # Unset /\ call.raised = "none"

\* the value get(f, r) gives on the snapshot the query filtered
OnSnapshot(f, r) == BuildValue(call.snap, f, r).result

\* every value of the result is the one of get on the filtered snapshot
ValuesFromSnapshot ==
    \A i \in 1 .. Len(call.keys), j \in 1 .. Len(call.fields) :
        HasCol(call.snap, call.fields[j]) =>
            call.rows[i][j] = OnSnapshot(call.fields[j], call.keys[i])

\* C14: for every run r of the result of get_all and every field f of the
\* sheet, result[r][f] equals get(f, r) on the snapshot of the query, and
\* an empty cell of a surviving row is never reported as empty
C14_ValuesFromLookup ==
    QueryReturned =>
        /\ ValuesFromSnapshot
        /\ \A i \in 1 .. Len(call.keys), j \in 1 .. Len(call.fields) :
              HasCol(call.snap, call.fields[j]) => call.rows[i][j] # Empty

(***************************************************************************)
(* Properties of update.                                                   *)
(***************************************************************************)
\* the four record sets and the timestamp
cache == <<records_raw, records_python_raw, records, records_python,
           lastUpdate>>

\* the four record sets are those of one fetch of the two sheets as they
\* are, and the timestamp is the time of the return
FullyNew ==
    LET rs == GetAllRecords(srcSheet, SrcHead)
        rw == GetAllRecords(wrSheet, WriteHead)
    IN  /\ records_raw' = DataFrame(rs.keys, rs.recs)
        /\ records_python_raw' = DataFrame(rw.keys, rw.recs)
        /\ records' = DataFrame(rs.keys,
                          CleanRecs(rs.recs, KeyIndex(rs.keys, "run_number")))
        /\ records_python' = DataFrame(rw.keys,
                          CleanRecs(rw.recs, KeyIndex(rw.keys, "run_number")))
        /\ lastUpdate' = now'

\* C15: an update call either replaces the four record sets and the
\* timestamp together by those of one refresh, or leaves all five as they
\* were; a call that fails leaves them as they were
C15_AtomicSnapshot ==
    [][(IsCall /\ call'.op = "update") =>
          IF call'.raised = "none"
          THEN UNCHANGED cache \/ FullyNew
          ELSE UNCHANGED cache]_vars

(***************************************************************************)
(* Properties of the cache window.                                         *)
(***************************************************************************)
\* the call is a get that made no refresh, and the last get before it had
\* the same arguments and returned from the cache of the same refresh
SameWindowPair ==
    /\ call.op = "get" /\ ~call.stale
    /\ call.prev.op = "get"
    /\ call.prev.at = lastUpdate
    /\ call.prev.key = call.key
    /\ call.prev.run = call.run
    /\ call.prev.python = call.python

\* the value a get of the same arguments gives on the sheets as they are
OnSheets ==
    LET p == Partition(GetAllRecords(srcSheet, SrcHead),
                       GetAllRecords(wrSheet, WriteHead), now)
    IN  GetOutcome(IF call.python THEN p.pclean ELSE p.clean, call.key,
                   call.run).result

\* C16: two get calls with the same arguments inside one cache window
\* return the same result, whatever was written to the remote sheets
\* between them by this instance or by other writers
C16_SameWindowStable ==
    SameWindowPair =>
        /\ call.result = call.prev.result
        /\ call.raised = call.prev.raised

\* the second get of a pair, after the sheet it reads was changed so that
\* it no longer holds the value returned: by a write of this instance
C16_Witness ==
    /\ SameWindowPair /\ call.python
    /\ call.raised = "none"
    /\ OnSheets # call.result

(***************************************************************************)
(* Properties of the rows of the write sheet.                              *)
(***************************************************************************)
\* C17: no two rows of the write sheet hold the same run number in their
\* run_number cell, after any sequence of write calls, also for runs that
\* other writers added after the cached snapshot was taken
C17_NoDuplicateRows ==
    \A r, q \in Rows :
        (WriteHead < r /\ r < q /\ wrSheet[r][1] # "") =>
            wrSheet[r][1] # wrSheet[q][1]

(***************************************************************************)
(* Properties of _get_sheet_instance.                                      *)
(***************************************************************************)
\* the attempts of the call that failed
FailedAttempts == call.attempts - (IF call.handle THEN 1 ELSE 0)

\* C18: _get_sheet_instance makes at most 5 attempts, sleeps 2 after each
\* failed attempt, returns the handle on the first success, and after 5
\* failures returns None without raising
C18_BoundedConnect ==
    call.op = "connect" =>
        /\ call.attempts <= 5
        /\ call.slept = 2 * FailedAttempts
        /\ call.raised = "none"
        /\ IF call.tr.k < 5
           THEN call.handle /\ call.attempts = call.tr.k + 1
           ELSE ~call.handle /\ call.attempts = 5

\* every attempt of a call fails, more often than the loop tries
C18_Witness ==
    /\ call.op = "connect" /\ call.tr.k > MaxRetries
    /\ ~call.handle /\ call.attempts = MaxRetries
    /\ now >= call.slept /\ call.slept = MaxRetries * RetrySleep

(***************************************************************************)
(* Properties of the run_number cell.                                      *)
(***************************************************************************)
\* a write call to the write sheet for a run that is not in the raw frame
\* it works on, whose row is on the sheet
CreatesRow ==
    /\ IsCall /\ call'.op \in {"write", "meta_write"} /\ call'.python
    /\ HasCol(records_python_raw', "run_number")
    /\ ~RowFound(records_python_raw', call'.run)
    /\ InGrid(call'.run + 2, GetLoc(records_python_raw', "run_number") + 1)

\* C19: a write for a run that is not in the cached raw frame works on
\* sheet row run_number + 2 and writes the run number into the
\* run_number cell of that row only when the cell is empty or overwrite
\* is set, and leaves it as it is otherwise; in both variants
C19_RunCellOnCreation ==
    [][CreatesRow =>
         LET r == call'.run + 2
             c == GetLoc(records_python_raw', "run_number") + 1
         IN  /\ \A n \in 1 .. Len(call'.cells) :
                   call'.cells[n][1] # WriteHead => call'.cells[n][1] = r
             /\ IF wrSheet[r][c] = "" \/ call'.overwrite
                THEN wrSheet'[r][c] = IntStr(call'.run)
                ELSE wrSheet'[r][c] = wrSheet[r][c]]_vars

(***************************************************************************)
(* Properties of write on the source sheet.                                *)
(***************************************************************************)
\* C20: write(..., python=False) resolves row and column in the raw frame
\* of the source sheet and reads and writes the cells of the source
\* worksheet, as python=True does on the write sheet, and it returns
\* without raising
C20_SourceSheetWrite ==
    [][(IsCall /\ call'.op = "write" /\ ~call'.python) =>
         LET w == WriteOutcome(srcSheet, records_raw', call'.key, call'.data,
                               call'.run, call'.new_key, call'.overwrite)
         IN  /\ call'.raised = "none"
             /\ srcSheet' = w.sheet
             /\ wrSheet' = wrSheet]_vars

(***************************************************************************)
(* Properties of the DateTime filter.                                      *)
(***************************************************************************)
\* the Date and Time of row k of the frame, parsed and combined
DateTimeOf(df, k) ==
    LET d == ToDate(df.rows[k][KeyIndex(df.cols, "Date")])
        t == ToTime(df.rows[k][KeyIndex(df.cols, "Time")])
    IN  IF d.t = "date" /\ t.t = "time" THEN PyDateTime(d.i, t.i) ELSE NaT

\* the runs of the frame whose combined Date and Time satisfy entry e
DateTimeSatisfying(df, e) ==
    {df.rows[k][KeyIndex(df.cols, "run_number")] :
        k \in {k \in 1 .. Len(df.rows) :
                 LET x == DateTimeOf(df, k)
                 IN  IF e.kind = "eq" THEN x = e.v
                     ELSE IF e.kind = "in" THEN x \in e.vs
                     ELSE x.t = e.lo.t /\ e.lo.i <= x.i /\ x.i <= e.hi.i}}

\* a get_all call on a sheet with Date and Time whose filter has a
\* DateTime entry and otherwise only Date and Time entries that every
\* row satisfies
DateTimeQuery ==
    /\ call.op = "get_all" /\ call.snap # Unset /\ call.lapse = 0
    /\ HasCol(call.snap, "Date") /\ HasCol(call.snap, "Time")
    /\ InFilter(call.filter, "DateTime")
    /\ \A n \in 1 .. Len(call.filter) :
          \/ call.filter[n].key = "DateTime"
          \/ /\ call.filter[n].key \in {"Date", "Time"}
             /\ \A k \in 1 .. Len(call.snap.rows) :
                   Meets(call.snap.rows[k][KeyIndex(call.snap.cols,
                                                    call.filter[n].key)],
                         call.filter[n])

\* C21: get_all with a DateTime entry (scalar, list or range) returns
\* without raising exactly the runs whose combined Date and Time satisfy
\* it, whether it is the only entry or stands with Date and Time entries
\* that every row satisfies
C21_DateTimeFilter ==
    DateTimeQuery =>
        /\ call.raised = "none"
        /\ {call.keys[k] : k \in 1 .. Len(call.keys)}
              = DateTimeSatisfying(call.snap, Entry(call.filter, "DateTime"))

(***************************************************************************)
(* Properties of the rows written.                                         *)
(***************************************************************************)
\* the cells written by the call that are data cells: below the header
\* row and not in the run_number column
DataCells ==
    {n \in 1 .. Len(call'.cells) :
        /\ call'.cells[n][1] # WriteHead
        /\ call'.cells[n][2] # HeaderIndex(wrSheet, WriteHead, "run_number")}

\* C22: every sheet row into which a write call for run N writes a data
\* cell holds N in its run_number cell when the call has returned, and
\* was not the row of a different run before the call
C22_RowOwnership ==
    [][(IsCall /\ call'.op = "write" /\ call'.python) =>
         \A n \in DataCells :
            LET r == call'.cells[n][1]
                c == HeaderIndex(wrSheet, WriteHead, "run_number")
            IN  /\ wrSheet'[r][c] = IntStr(call'.run)
                /\ wrSheet[r][c] \in {"", IntStr(call'.run)}]_vars

(***************************************************************************)
(* Properties of the build of a get_all result.                            *)
(***************************************************************************)
\* a get_all call during whose build the cache window elapsed
LapsedQuery ==
    call.op = "get_all" /\ call.snap # Unset /\ call.lapse # 0

\* C23: also when the cache window elapses and the remote sheet changes
\* during the build, get_all returns, and every value of its result is
\* the one of the snapshot the rows were filtered on: none is taken from
\* a newer snapshot and none is None
C23_SingleSnapshot ==
    LapsedQuery =>
        /\ call.raised = "none"
        /\ \A i \in 1 .. Len(call.keys), j \in 1 .. Len(call.fields) :
              /\ call.rows[i][j] # PyNone
              /\ call.rows[i][j] = OnSnapshot(call.fields[j], call.keys[i])

(***************************************************************************)
(* Properties of get after a refresh.                                      *)
(***************************************************************************)
\* C24: a get call whose refresh succeeded returns without raising, for
\* every key, every run and every content of the snapshot, a clean frame
\* without records included, and changes no cell of the remote sheets
C24_TotalLookup ==
    [][(IsCall /\ call'.op = "get" /\ call'.fetches > 0
          /\ lastUpdate' = now') =>
         /\ call'.raised = "none"
         /\ UNCHANGED <<srcSheet, wrSheet>>]_vars

====
